---- MODULE Spec2Model ----
(***************************************************************************)
(* Newsletter signup bot (script.py): the batch driver run_batch, the      *)
(* progress marker (last_index.txt), the two ledgers (processed_urls.txt,  *)
(* completed_urls.txt), the task runner adapter process_url and the outer  *)
(* retry loop, with process crashes and I/O errors of the bookkeeping.     *)
(* List indices are the 0-based indices of the Python code; the TLA+       *)
(* sequence urls holds the URL of index k at position k + 1.               *)
(***************************************************************************)
EXTENDS Integers, Sequences, FiniteSets, TLC

\* ---- bounds of the model ------------------------------------------------
MaxLen == 3
MaxRestarts == 1
MaxFaults == 1
MaxPhrases == 1
MaxUrlTokens == 4
MaxMarkerLen == 2
MaxLineTokens == 2
MaxFileLines == 2
MaxIndex == 12

\* ---- program constants --------------------------------------------------
max_retries == 3

URLS == {"shop1.com", "shop2.com"}

\* ---- the agent's result text --------------------------------------------
\* A text is modelled by the set of phrases that occur in it, as the agent
\* wrote them (the prompt asks for "NO FORM FOUND" in capitals).
FormKeywords == {"form found", "newsletter", "subscribe", "contact", "email"}

SuccessKeywords == {"success", "submitted", "thank you", "confirmation",
                    "registered", "subscribed", "sent"}

Phrases == FormKeywords \cup SuccessKeywords
           \cup {"no form found", "NO FORM FOUND", "Thank You", "page loaded"}

RECURSIVE TextsUpTo(_)
TextsUpTo(n) ==
    IF n = 0 THEN {{}}
    ELSE LET T == TextsUpTo(n - 1) IN T \cup {t \cup {p} : t \in T, p \in Phrases}

Texts == TextsUpTo(MaxPhrases)

\* str.lower() on one phrase
Lower(p) ==
    CASE p = "NO FORM FOUND" -> "no form found"
      [] p = "Thank You" -> "thank you"
      [] OTHER -> p

\* keyword in phrase (substring test between the phrases of the model)
Substring(kw, p) ==
    \/ kw = p
    \/ kw = "form found" /\ p = "no form found"
    \/ kw = "subscribe" /\ p = "subscribed"

\* keyword in result_text, result_text being the lowercased text
Contains(text, kw) == \E p \in text : Substring(kw, Lower(p))

\* ---- ProcessingResult and the adapter -----------------------------------
None == "None"

ProcessingResult(u, s, e, f, c) ==
    [url |-> u, success |-> s, error_message |-> e,
     form_found |-> f, submission_confirmed |-> c]

NoResult == ProcessingResult("", FALSE, None, FALSE, FALSE)

\* what runner.run does: completes with a text, reports non-completion,
\* raises asyncio.TimeoutError or raises another Exception
AgentOutcomes ==
    [kind : {"complete"}, text : Texts]
    \cup [kind : {"incomplete", "timeout", "error"}, text : {{}}]

\* the else branch of "if run_result.complete" left out
IncompleteMessage_NoMessage == None

IncompleteMessage == "Task did not complete within timeout"

process_url(u, out) ==
    CASE out.kind = "complete" ->
           LET form == \E kw \in FormKeywords : Contains(out.text, kw)
               sent == \E kw \in SuccessKeywords : Contains(out.text, kw)
           IN  IF sent
               THEN ProcessingResult(u, TRUE, None, form, TRUE)
               ELSE IF Contains(out.text, "no form found")
               THEN ProcessingResult(u, TRUE, "No newsletter form found on page",
                                     form, FALSE)
               ELSE ProcessingResult(u, FALSE, "Form found but submission unclear",
                                     form, FALSE)
      [] out.kind = "incomplete" ->
           ProcessingResult(u, FALSE, IncompleteMessage, FALSE, FALSE)
      [] out.kind = "timeout" ->
           ProcessingResult(u, FALSE, "Timeout during processing", FALSE, FALSE)
      [] OTHER ->
           ProcessingResult(u, FALSE, "Unexpected error: ", FALSE, FALSE)

\* ---- text -------------------------------------------------------------------
\* A string is a sequence of tokens; " " stands for any whitespace.
Space == " "

\* str.strip()
RECURSIVE Strip(_)
Strip(s) ==
    IF s = <<>> THEN s
    ELSE IF Head(s) = Space THEN Strip(Tail(s))
    ELSE IF s[Len(s)] = Space THEN Strip(SubSeq(s, 1, Len(s) - 1))
    ELSE s

\* ---- the progress marker file -------------------------------------------
\* The file is absent, or holds a sequence of characters (empty after a
\* truncating open whose write did not happen).
Digits == <<"0", "1", "2", "3", "4", "5", "6", "7", "8", "9">>

DigitValue(c) == CHOOSE d \in 0..9 : Digits[d + 1] = c

IsDecimal(s) == s # <<>> /\ \A k \in 1..Len(s) : \E d \in 0..9 : Digits[d + 1] = s[k]

RECURSIVE Str(_)
Str(n) == IF n < 10 THEN <<Digits[n + 1]>>
          ELSE Str(n \div 10) \o <<Digits[(n % 10) + 1]>>

\* int() on a string of decimal digits
RECURSIVE ParseInt(_)
ParseInt(s) ==
    IF Len(s) = 1 THEN DigitValue(s[1])
    ELSE 10 * ParseInt(SubSeq(s, 1, Len(s) - 1)) + DigitValue(s[Len(s)])

NoFile == [exists |-> FALSE, content |-> <<>>]

File(c) == [exists |-> TRUE, content |-> c]

\* "return 1" as the default
get_start_index_DefaultOne(f) ==
    IF f.exists /\ IsDecimal(Strip(f.content))
    THEN ParseInt(Strip(f.content)) ELSE 1

\* int() of a text that is no integer raises ValueError, which
\* get_start_index swallows
get_start_index(f) ==
    IF f.exists /\ IsDecimal(Strip(f.content))
    THEN ParseInt(Strip(f.content)) ELSE 0

save_progress(index) == File(Str(index))

\* ---- the ledgers ----------------------------------------------------------
Range(s) == {s[k] : k \in 1..Len(s)}

\* readlines() in place of splitlines(): no line equals the URL
is_url_processed_Readlines(processed, u) == FALSE

is_url_processed(processed, u) == u \in Range(processed)

Confirmed(r) == r.success /\ r.submission_confirmed

\* the states of the two ledger files mark_url_processed goes through:
\* before the first append, after it, and after the conditional second one
\* open(..., 'w') in place of open(..., 'a')
mark_url_processed_Rewrite(processed, completed, u, r) ==
    <<  <<processed, completed>>,
        << <<u>>, completed>> >>
    \o (IF Confirmed(r) THEN << << <<u>>, <<u>> >> >> ELSE <<>>)

\* the succeeded ledger written before the attempted ledger
mark_url_processed_CompletedFirst(processed, completed, u, r) ==
    (IF Confirmed(r)
     THEN <<  <<processed, completed>>,
              <<processed, Append(completed, u)>>,
              <<Append(processed, u), Append(completed, u)>> >>
     ELSE <<  <<processed, completed>>,
              <<Append(processed, u), completed>> >>)

\* result.success alone decides the second append
mark_url_processed_AnySuccess(processed, completed, u, r) ==
    <<  <<processed, completed>>,
        <<Append(processed, u), completed>> >>
    \o (IF r.success
        THEN << <<Append(processed, u), Append(completed, u)>> >>
        ELSE <<>>)

mark_url_processed(processed, completed, u, r) ==
    <<  <<processed, completed>>,
        <<Append(processed, u), completed>> >>
    \o (IF Confirmed(r)
        THEN << <<Append(processed, u), Append(completed, u)>> >>
        ELSE <<>>)

Last(s) == s[Len(s)]

IsPrefix(s, t) == Len(s) <= Len(t) /\ SubSeq(t, 1, Len(s)) = s

\* ---- get_urls_from_file ----------------------------------------------------
\* The URL file is missing, or a sequence of lines; a line is a string.
MissingFile == [exists |-> FALSE, lines |-> <<>>]

FileNotFoundError == "FileNotFoundError"

\* "if line and not line.startswith('#')": the comment test on the raw line
KeepLine_Untrimmed(line) == Strip(line) # <<>> /\ Head(line) # "#"

\* "if url and not url.startswith('#')", url being line.strip()
KeepLine(line) == Strip(line) # <<>> /\ Head(Strip(line)) # "#"

\* the for loop over the lines, from line k on
RECURSIVE LoadFrom(_, _)
LoadFrom(lines, k) ==
    IF k > Len(lines) THEN <<>>
    ELSE (IF KeepLine(lines[k]) THEN <<Strip(lines[k])>> ELSE <<>>)
         \o LoadFrom(lines, k + 1)

get_urls_from_file(f) ==
    IF f.exists THEN LoadFrom(f.lines, 1) ELSE FileNotFoundError

\* ---- generate_email_from_url ----------------------------------------------
Schemes == {"http://", "https://"}

\* the tokens that contain the character '/'
HasSlash == Schemes \cup {"/"}

\* str.replace(t, '') on a string of tokens
RECURSIVE Remove(_, _)
Remove(s, t) ==
    IF s = <<>> THEN s
    ELSE (IF Head(s) = t THEN <<>> ELSE <<Head(s)>>) \o Remove(Tail(s), t)

\* the part of s before its first token in stops
RECURSIVE Before(_, _)
Before(s, stops) ==
    IF s = <<>> \/ Head(s) \in stops THEN <<>>
    ELSE <<Head(s)>> \o Before(Tail(s), stops)

\* url.replace('http://', '').replace('https://', '').split('/')[0]
CleanUrl(url) == Before(Remove(Remove(url, "http://"), "https://"), {"/"})

StartsWithWww(s) == s # <<>> /\ Head(s) = "www."

\* the prefix test left out
StripWww_Never(s) == s

\* "if s.startswith('www.'): s = s[4:]"
StripWww(s) == IF StartsWithWww(s) THEN Tail(s) ELSE s

\* urlparse raises ValueError for a netloc with an unmatched '['
UrlparseRaises(url) ==
    LET full == IF url # <<>> /\ Head(url) \in Schemes THEN Tail(url) ELSE url
    IN  \E k \in 1..Len(Before(full, HasSlash)) : full[k] = "["

Email(host) == <<"news-">> \o host \o <<"@plugilo.news">>

generate_email_from_url(url) ==
    IF UrlparseRaises(url)
    THEN Email(StripWww(CleanUrl(url)))
    ELSE LET domain == StripWww(CleanUrl(url))
         IN  IF domain = <<>>
             THEN Email(StripWww(CleanUrl(url)))
             ELSE Email(domain)

\* ---- state ------------------------------------------------------------------
VARIABLES
    urls,                    \* self.urls, loaded from the URL file
    last_index_file,         \* the progress marker file
    processed_urls_file,     \* the attempted ledger, one URL per line
    completed_urls_file,     \* the succeeded ledger, one URL per line
    pc,                      \* where the driver process is
    retry_count,             \* the retry loop's counter
    start_index,             \* run_batch's argument
    i,                       \* run_batch's loop index
    result,                  \* the ProcessingResult of the current URL
    successful_submissions,
    total_processed,
    permits,                 \* free permits of self.semaphore
    in_flight,               \* process_url calls started and not returned
    outcome,                 \* kind of the last outcome of runner.run
    submitted,               \* URL -> number of times given to the agent
    crash_in_flight,         \* URLs that were in flight at a crash
    mark_raised,             \* URLs whose ledger append raised
    last_saved,              \* index whose save_progress completed last
    ledger_unreadable,       \* reading the attempted ledger fails for now
    restarts,                \* process starts after the first
    faults,                  \* bookkeeping calls that raised
    urls_file_exists,        \* whether the URL file is there
    main_calls,              \* invocations of main by this process
    run_last,                \* index submitted last in this run_batch, or -1
    attempted_before,        \* lines of the attempted ledger at run_batch entry
    completed_before,        \* lines of the succeeded ledger at run_batch entry
    faults_before,           \* value of faults at run_batch entry
    after_clean_run,         \* the process before this one returned from a
                             \* run_batch in which nothing raised
    arg,                     \* argument of a function applied on its own
    ret                      \* what that function returned

files == <<last_index_file, processed_urls_file, completed_urls_file>>

locals == <<start_index, i, result, successful_submissions, total_processed,
            permits, in_flight, outcome>>

ghosts == <<submitted, crash_in_flight, mark_raised, last_saved>>

env == <<ledger_unreadable, restarts, faults>>

fixed == <<urls, urls_file_exists, arg, ret>>

runinfo == <<main_calls, run_last, attempted_before, completed_before,
             faults_before, after_clean_run>>

vars == <<fixed, files, pc, retry_count, locals, ghosts, env, runinfo>>

UrlLists == UNION {[1..n -> URLS] : n \in 0..MaxLen}

UrlAt(k) == urls[k + 1]

\* asyncio.Semaphore(2)
SemaphoreCapacity_Two == 1 + 1

\* asyncio.Semaphore(1)
SemaphoreCapacity == 1

NoArg == [fn |-> "none"]

Init ==
    /\ urls \in UrlLists
    /\ urls_file_exists \in BOOLEAN
    /\ ~urls_file_exists => urls = <<>>
    /\ main_calls = 0
    /\ run_last = -1
    /\ attempted_before = 0
    /\ completed_before = 0
    /\ faults_before = 0
    /\ after_clean_run = FALSE
    /\ arg = NoArg
    /\ ret = NoArg
    /\ last_index_file = NoFile
    /\ processed_urls_file = <<>>
    /\ completed_urls_file = <<>>
    /\ pc = "main"
    /\ retry_count = 0
    /\ start_index = 0
    /\ i = 0
    /\ result = NoResult
    /\ successful_submissions = 0
    /\ total_processed = 0
    /\ permits = SemaphoreCapacity
    /\ in_flight = 0
    /\ outcome = "none"
    /\ submitted = [u \in URLS |-> 0]
    /\ crash_in_flight = {}
    /\ mark_raised = {}
    /\ last_saved = -1
    /\ ledger_unreadable = FALSE
    /\ restarts = 0
    /\ faults = 0

\* ---- run_batch ----------------------------------------------------------------
\* range(len(self.urls)): the start index ignored
FirstIndex_Zero(start) == 0

\* first value of range(start_index + 1, len(self.urls))
FirstIndex(start) == start + 1

\* "if result.success:" at the counter
CountedSuccessful_AnySuccess(r) == r.success

\* the test of line 311 before successful_submissions += 1
CountedSuccessful(r) == r.success /\ r.submission_confirmed

\* save_progress(i)
ProgressValue_Index(k, total) == k

\* the argument of save_progress in iteration k
ProgressValue(k, total) == k + 1

\* the failed URL tried again
AfterError_Retry(k) == k

\* break in place of continue
AfterError_Break(k) == Len(urls)

\* the except clause of the loop body: log and continue with the next index
AfterError(k) == k + 1

\* retry_count <= max_retries in the test of the retry loop
AfterFailure_OneMore(n) == IF n <= max_retries THEN "main" ELSE "failed"

\* the retry loop after its n-th caught error: call main again, or re-raise
AfterFailure(n) == IF n < max_retries THEN "main" ELSE "failed"

\* main(): construct the bot, read the marker, enter run_batch
Main ==
    /\ pc = "main"
    /\ urls_file_exists
    /\ start_index' = get_start_index(last_index_file)
    /\ i' = FirstIndex(start_index')
    /\ successful_submissions' = 0
    /\ total_processed' = 0
    /\ permits' = SemaphoreCapacity
    /\ in_flight' = 0
    /\ result' = NoResult
    /\ outcome' = "none"
    /\ pc' = "loop"
    /\ UNCHANGED <<fixed, files, retry_count, ghosts, env>>
    /\ main_calls' = main_calls + 1
    /\ run_last' = -1
    /\ attempted_before' = Len(processed_urls_file)
    /\ completed_before' = Len(completed_urls_file)
    /\ faults_before' = faults
    /\ UNCHANGED after_clean_run

\* main(): the constructor's get_urls_from_file raises FileNotFoundError,
\* which leaves main; the retry loop counts it
MainLoadFails ==
    /\ pc = "main"
    /\ ~urls_file_exists
    /\ main_calls' = main_calls + 1
    /\ retry_count' = retry_count + 1
    /\ pc' = AfterFailure(retry_count')
    /\ UNCHANGED <<fixed, files, locals, ghosts, env, run_last,
                   attempted_before, completed_before, faults_before,
                   after_clean_run>>

\* the skipped index recorded as progress before continue
Skip_SavesProgress ==
    /\ pc = "loop"
    /\ i < Len(urls)
    /\ ~ledger_unreadable
    /\ is_url_processed(processed_urls_file, UrlAt(i))
    /\ last_index_file' = save_progress(ProgressValue(i, total_processed))
    /\ i' = i + 1
    /\ UNCHANGED <<fixed, processed_urls_file, completed_urls_file, pc,
                   retry_count, start_index, result, successful_submissions,
                   total_processed, permits, in_flight, outcome, ghosts, env>>
    /\ UNCHANGED runinfo

\* loop head, URL already in the attempted ledger: continue
Skip ==
    /\ pc = "loop"
    /\ i < Len(urls)
    /\ ~ledger_unreadable
    /\ is_url_processed(processed_urls_file, UrlAt(i))
    /\ i' = i + 1
    /\ UNCHANGED <<fixed, files, pc, retry_count, start_index, result,
                   successful_submissions, total_processed, permits, in_flight,
                   outcome, ghosts, env>>
    /\ UNCHANGED runinfo

\* loop head, URL not in the ledger: process_url_with_semaphore acquires the
\* permit and process_url awaits runner.run
Submit ==
    /\ pc = "loop"
    /\ i < Len(urls)
    /\ ~ledger_unreadable
    /\ ~is_url_processed(processed_urls_file, UrlAt(i))
    /\ permits > 0
    /\ permits' = permits - 1
    /\ in_flight' = in_flight + 1
    /\ submitted' = [submitted EXCEPT ![UrlAt(i)] = @ + 1]
    /\ pc' = "agent"
    /\ UNCHANGED <<fixed, files, retry_count, start_index, i, result,
                   successful_submissions, total_processed, outcome,
                   crash_in_flight, mark_raised, last_saved, env>>
    /\ run_last' = i
    /\ UNCHANGED <<main_calls, attempted_before, completed_before, faults_before,
                   after_clean_run>>

\* runner.run ends; process_url classifies and returns, the permit is released
AgentReturns ==
    /\ pc = "agent"
    /\ \E out \in AgentOutcomes :
         /\ result' = process_url(UrlAt(i), out)
         /\ outcome' = out.kind
    /\ permits' = permits + 1
    /\ in_flight' = in_flight - 1
    /\ pc' = "mark"
    /\ UNCHANGED <<fixed, files, retry_count, start_index, i,
                   successful_submissions, total_processed, ghosts, env>>
    /\ UNCHANGED runinfo

\* mark_url_processed returns; the counters are updated
Mark ==
    /\ pc = "mark"
    /\ LET after == Last(mark_url_processed(processed_urls_file,
                                            completed_urls_file, UrlAt(i), result))
       IN  /\ processed_urls_file' = after[1]
           /\ completed_urls_file' = after[2]
    /\ total_processed' = total_processed + 1
    /\ successful_submissions' =
         successful_submissions + (IF CountedSuccessful(result) THEN 1 ELSE 0)
    /\ pc' = "save"
    /\ UNCHANGED <<fixed, last_index_file, retry_count, start_index, i, result,
                   permits, in_flight, outcome, ghosts, env>>
    /\ UNCHANGED runinfo

\* mark_url_processed raises at one of its two open() calls; caught at 318
MarkRaises ==
    /\ pc = "mark"
    /\ faults < MaxFaults
    /\ LET steps == mark_url_processed(processed_urls_file, completed_urls_file,
                                       UrlAt(i), result)
       IN  \E k \in 1..(Len(steps) - 1) :
             /\ processed_urls_file' = steps[k][1]
             /\ completed_urls_file' = steps[k][2]
             /\ mark_raised' = IF k = 1 THEN mark_raised \cup {UrlAt(i)}
                               ELSE mark_raised
    /\ faults' = faults + 1
    /\ i' = AfterError(i)
    /\ pc' = "loop"
    /\ UNCHANGED <<fixed, last_index_file, retry_count, start_index, result,
                   successful_submissions, total_processed, permits, in_flight,
                   outcome, submitted, crash_in_flight, last_saved,
                   ledger_unreadable, restarts>>
    /\ UNCHANGED runinfo

\* save_progress(i + 1) returns; next iteration
Save ==
    /\ pc = "save"
    /\ last_index_file' = save_progress(ProgressValue(i, total_processed))
    /\ last_saved' = i
    /\ i' = i + 1
    /\ pc' = "loop"
    /\ UNCHANGED <<fixed, processed_urls_file, completed_urls_file, retry_count,
                   start_index, result, successful_submissions, total_processed,
                   permits, in_flight, outcome, submitted, crash_in_flight,
                   mark_raised, env>>
    /\ UNCHANGED runinfo

\* save_progress raises: at open() (file untouched) or at the write after the
\* truncating open (file left empty); caught at 318
SaveRaises ==
    /\ pc = "save"
    /\ faults < MaxFaults
    /\ last_index_file' \in {last_index_file, File(<<>>)}
    /\ faults' = faults + 1
    /\ i' = AfterError(i)
    /\ pc' = "loop"
    /\ UNCHANGED <<fixed, processed_urls_file, completed_urls_file, retry_count,
                   start_index, result, successful_submissions, total_processed,
                   permits, in_flight, outcome, ghosts, ledger_unreadable,
                   restarts>>
    /\ UNCHANGED runinfo

\* the range is exhausted: run_batch returns the pair, main returns, the
\* retry loop breaks
Return ==
    /\ pc = "loop"
    /\ i >= Len(urls)
    /\ pc' = "returned"
    /\ UNCHANGED <<fixed, files, retry_count, locals, ghosts, env>>
    /\ UNCHANGED runinfo

\* is_url_processed raises reading the ledger (outside the try of the loop
\* body): the error leaves run_batch and main, and the retry loop counts it
ReadRaises ==
    /\ pc = "loop"
    /\ i < Len(urls)
    /\ processed_urls_file # <<>>
    /\ ledger_unreadable \/ faults < MaxFaults
    /\ faults' = IF ledger_unreadable THEN faults ELSE faults + 1
    /\ ledger_unreadable' \in BOOLEAN
    /\ retry_count' = retry_count + 1
    /\ pc' = AfterFailure(retry_count')
    /\ UNCHANGED <<fixed, files, locals, ghosts, restarts, runinfo>>

\* ---- the process -------------------------------------------------------------
\* the process is killed; a call in progress leaves the file in one of the
\* states it goes through
Crash ==
    /\ pc \in {"main", "loop", "agent", "mark", "save"}
    /\ \/ /\ pc = "mark"
          /\ LET steps == mark_url_processed(processed_urls_file,
                                             completed_urls_file, UrlAt(i), result)
             IN  \E k \in 1..Len(steps) :
                   /\ processed_urls_file' = steps[k][1]
                   /\ completed_urls_file' = steps[k][2]
                   /\ crash_in_flight' = IF k = 1
                                         THEN crash_in_flight \cup {UrlAt(i)}
                                         ELSE crash_in_flight
          /\ UNCHANGED last_index_file
       \/ /\ pc = "save"
          /\ last_index_file' \in
               {last_index_file, File(<<>>),
                save_progress(ProgressValue(i, total_processed))}
          /\ UNCHANGED <<processed_urls_file, completed_urls_file,
                         crash_in_flight>>
       \/ /\ pc = "agent"
          /\ crash_in_flight' = crash_in_flight \cup {UrlAt(i)}
          /\ UNCHANGED files
       \/ /\ pc \in {"main", "loop"}
          /\ UNCHANGED <<files, crash_in_flight>>
    /\ pc' = "dead"
    /\ start_index' = 0
    /\ i' = 0
    /\ result' = NoResult
    /\ successful_submissions' = 0
    /\ total_processed' = 0
    /\ permits' = SemaphoreCapacity
    /\ in_flight' = 0
    /\ outcome' = "none"
    /\ ledger_unreadable' = FALSE
    /\ UNCHANGED <<fixed, retry_count, submitted, mark_raised, last_saved,
                   restarts, faults>>
    /\ main_calls' = 0
    /\ run_last' = -1
    /\ attempted_before' = 0
    /\ completed_before' = 0
    /\ faults_before' = 0
    /\ UNCHANGED after_clean_run

\* the script is started again
Restart ==
    /\ pc \in {"dead", "returned", "failed"}
    /\ restarts < MaxRestarts
    /\ restarts' = restarts + 1
    /\ retry_count' = 0
    /\ ledger_unreadable' = FALSE
    /\ pc' = "main"
    /\ UNCHANGED <<fixed, files, locals, ghosts, faults>>
    /\ main_calls' = 0
    /\ after_clean_run' = (pc = "returned" /\ faults = faults_before)
    /\ UNCHANGED <<run_last, attempted_before, completed_before, faults_before>>

Next ==
    \/ Main
    \/ MainLoadFails
    \/ Skip
    \/ Submit
    \/ AgentReturns
    \/ Mark
    \/ MarkRaises
    \/ Save
    \/ SaveRaises
    \/ Return
    \/ ReadRaises
    \/ Crash
    \/ Restart

Spec == Init /\ [][Next]_vars

\* ---- the functions applied on their own -------------------------------------
Strings(T, n) == UNION {[1..k -> T] : k \in 0..n}

UrlTokens == {"http://", "https://", "www.", "shop1.com", "/", "path", "["}

MarkerChars == Range(Digits) \cup {Space, "x"}

LineTokens == {Space, "#", "a.com"}

MarkerFiles == {NoFile} \cup {File(c) : c \in Strings(MarkerChars, MaxMarkerLen)}

UrlFiles ==
    {MissingFile}
    \cup {[exists |-> TRUE, lines |-> l] :
            l \in Strings(Strings(LineTokens, MaxLineTokens), MaxFileLines)}

batch == <<urls, urls_file_exists, processed_urls_file, completed_urls_file,
           retry_count, locals, ghosts, env, runinfo>>

InitPure ==
    /\ \/ /\ arg \in [fn : {"generate_email_from_url"},
                      url : Strings(UrlTokens, MaxUrlTokens)]
          /\ last_index_file = NoFile
       \/ /\ arg \in [fn : {"get_urls_from_file"}, file : UrlFiles]
          /\ last_index_file = NoFile
       \/ /\ arg = [fn |-> "get_start_index", saved |-> -1]
          /\ last_index_file \in MarkerFiles
    /\ ret = NoArg
    /\ pc = "call"
    /\ urls = <<>>
    /\ urls_file_exists = TRUE
    /\ processed_urls_file = <<>>
    /\ completed_urls_file = <<>>
    /\ retry_count = 0
    /\ start_index = 0
    /\ i = 0
    /\ result = NoResult
    /\ successful_submissions = 0
    /\ total_processed = 0
    /\ permits = SemaphoreCapacity
    /\ in_flight = 0
    /\ outcome = "none"
    /\ submitted = [u \in URLS |-> 0]
    /\ crash_in_flight = {}
    /\ mark_raised = {}
    /\ last_saved = -1
    /\ ledger_unreadable = FALSE
    /\ restarts = 0
    /\ faults = 0
    /\ main_calls = 0
    /\ run_last = -1
    /\ attempted_before = 0
    /\ completed_before = 0
    /\ faults_before = 0
    /\ after_clean_run = FALSE

GenerateEmail ==
    /\ pc = "call"
    /\ arg.fn = "generate_email_from_url"
    /\ ret' = [fn |-> arg.fn, value |-> generate_email_from_url(arg.url)]
    /\ pc' = "done"
    /\ UNCHANGED <<arg, last_index_file, batch>>

GetUrlsFromFile ==
    /\ pc = "call"
    /\ arg.fn = "get_urls_from_file"
    /\ ret' = [fn |-> arg.fn, value |-> get_urls_from_file(arg.file)]
    /\ pc' = "done"
    /\ UNCHANGED <<arg, last_index_file, batch>>

SaveProgress ==
    /\ pc = "call"
    /\ arg.fn = "get_start_index"
    /\ arg.saved = -1
    /\ \E n \in 0..MaxIndex :
         /\ last_index_file' = save_progress(n)
         /\ arg' = [arg EXCEPT !.saved = n]
    /\ UNCHANGED <<ret, pc, batch>>

GetStartIndex ==
    /\ pc = "call"
    /\ arg.fn = "get_start_index"
    /\ ret' = [fn |-> arg.fn, value |-> get_start_index(last_index_file)]
    /\ pc' = "done"
    /\ UNCHANGED <<arg, last_index_file, batch>>

NextPure ==
    \/ GenerateEmail
    \/ GetUrlsFromFile
    \/ SaveProgress
    \/ GetStartIndex

SpecPure == InitPure /\ [][NextPure]_vars

\* ---- properties -------------------------------------------------------------
Distinct(s) == \A a, b \in 1..Len(s) : a # b => s[a] # s[b]

MarkerValue == get_start_index(last_index_file)

\* C1: once a run has reached the end of the list, every URL of the list has
\* been submitted to the agent at least once (in this or an earlier run).
C1_AtLeastOnce ==
    pc = "returned" => \A k \in 1..Len(urls) : submitted[urls[k]] >= 1

\* C2: when the URL at index k was completed and the marker saved as k + 1,
\* the next invocation of run_batch considers index k + 1 first.
C2_ResumeAtMarker ==
    [][(pc = "main" /\ pc' = "loop" /\ last_saved >= 0
        /\ MarkerValue = last_saved + 1)
       => i' = last_saved + 1]_vars

\* C3: a fresh run without errors over distinct URLs returns total_processed
\* = len(urls), leaves every URL in the attempted ledger, and successful is
\* the number of lines of the succeeded ledger, all of them URLs of the list.
C3_FreshRunComplete ==
    (pc = "returned" /\ restarts = 0 /\ retry_count = 0 /\ faults = 0
     /\ Distinct(urls))
    => /\ total_processed = Len(urls)
       /\ Range(processed_urls_file) = Range(urls)
       /\ successful_submissions = Len(completed_urls_file)
       /\ Range(completed_urls_file) \subseteq Range(urls)

\* C4: a URL given to the agent is not a line of the attempted ledger; and
\* over a list of distinct URLs, a URL given to the agent again by a
\* restarted process was in flight at a crash.
C4_OnlyCrashInFlight ==
    [][\A u \in URLS :
         submitted'[u] > submitted[u]
         => /\ ~(u \in Range(processed_urls_file))
            /\ (Distinct(urls) /\ restarts >= 1 /\ retry_count = 0
                /\ submitted[u] >= 1)
               => u \in crash_in_flight]_vars

\* C4, amended: a URL given to the agent is not a line of the attempted
\* ledger; a URL given to the agent a second time was in flight at a crash,
\* or its mark_url_processed raised before the ledger append.
C4_NoResubmitOfLedgered ==
    [][\A u \in URLS :
         submitted'[u] > submitted[u]
         => /\ ~(u \in Range(processed_urls_file))
            /\ submitted[u] >= 1 => u \in (crash_in_flight \cup mark_raised)]_vars

C4_Witness ==
    /\ Distinct(urls)
    /\ restarts >= 1
    /\ retry_count = 0
    /\ pc = "agent"
    /\ submitted[UrlAt(i)] = 2
    /\ UrlAt(i) \in crash_in_flight

C6_OutcomeAdvancesMarker ==
    [][(pc = "save" /\ pc' = "loop" /\ faults' = faults)
       => get_start_index(last_index_file') = i + 1]_vars

C6_Witness ==
    /\ pc = "loop"
    /\ last_saved = i - 1
    /\ ~result.success
    /\ outcome = "timeout"
    /\ MarkerValue = i

\* C7: a returning mark_url_processed(url, result) appends url to the
\* attempted ledger, and appends it to the succeeded ledger exactly when
\* result.success and result.submission_confirmed.
C7_MarkAppends ==
    [][(pc = "mark" /\ pc' = "save")
       => /\ processed_urls_file' = Append(processed_urls_file, UrlAt(i))
          /\ is_url_processed(processed_urls_file', UrlAt(i))
          /\ completed_urls_file' =
               IF result.success /\ result.submission_confirmed
               THEN Append(completed_urls_file, UrlAt(i))
               ELSE completed_urls_file]_vars

C7_Witness ==
    /\ pc = "save"
    /\ result.success
    /\ ~result.submission_confirmed
    /\ UrlAt(i) \in Range(processed_urls_file)
    /\ ~(UrlAt(i) \in Range(completed_urls_file))

\* C8: in every step each ledger's old content is a prefix of its new one.
C8_AppendOnly ==
    [][/\ IsPrefix(processed_urls_file, processed_urls_file')
       /\ IsPrefix(completed_urls_file, completed_urls_file')]_vars

C8_Witness ==
    /\ restarts >= 1
    /\ Len(processed_urls_file) >= 2
    /\ Len(completed_urls_file) >= 1

\* C9: when mark_url_processed or save_progress raises at index i, the run
\* goes on with index i + 1, keeps its counters, and the retry loop does not
\* see an error.
C9_BookkeepingErrorCaught ==
    [][(pc \in {"mark", "save"} /\ faults' = faults + 1)
       => /\ pc' = "loop"
          /\ i' = i + 1
          /\ retry_count' = retry_count
          /\ total_processed' = total_processed
          /\ successful_submissions' = successful_submissions]_vars

C9_Witness ==
    /\ pc = "returned"
    /\ restarts = 0
    /\ retry_count = 0
    /\ mark_raised # {}
    /\ total_processed >= 1

\* C10: process_url hands run_batch a ProcessingResult for the URL; after an
\* agent error, a timeout or a non-completion it has success = FALSE,
\* submission_confirmed = FALSE and an error message.
C10_AdapterReturnsResult ==
    pc \in {"mark", "save"}
    => /\ DOMAIN result = DOMAIN NoResult
       /\ result.url = UrlAt(i)
       /\ result.success \in BOOLEAN
       /\ result.submission_confirmed \in BOOLEAN
       /\ outcome \in {"incomplete", "timeout", "error"}
          => /\ ~result.success
             /\ ~result.submission_confirmed
             /\ result.error_message # None

C10_Witness ==
    /\ pc = "mark"
    /\ outcome = "incomplete"
    /\ result.error_message = IncompleteMessage

\* C11: this process calls main at most three times; every call reads its
\* start index from the marker file as it is then; once main has returned
\* nothing more is called; each caught error leads to another call while
\* fewer than three were counted, and to the re-raise at the third.
C11_RetryBudget ==
    [][/\ main_calls' <= 3
       /\ (main_calls' = main_calls + 1 /\ pc' = "loop")
          => start_index' = get_start_index(last_index_file')
       /\ (pc = "returned" /\ restarts' = restarts)
          => (pc' = "returned" /\ main_calls' = main_calls)
       /\ retry_count' = retry_count + 1
          => /\ retry_count' < 3 => pc' = "main"
             /\ retry_count' >= 3 => pc' = "failed"
       /\ pc' = "failed" => (main_calls' = 3 /\ retry_count' = 3)]_vars

C11_Witness ==
    /\ pc = "failed"
    /\ main_calls = 3
    /\ retry_count = 3
    /\ processed_urls_file # <<>>

\* C12: the number of process_url calls in flight is 0 or 1, and a call is
\* in flight exactly while the one permit of the semaphore is taken.
C12_OneInFlight ==
    /\ in_flight \in {0, 1}
    /\ permits + in_flight = 1
    /\ in_flight = 1 <=> pc = "agent"

C12_Witness ==
    /\ pc = "agent"
    /\ in_flight = 1
    /\ permits = 0
    /\ total_processed >= 1

C14_ConfirmedImpliesFormFound ==
    (pc \in {"mark", "save"} /\ result.submission_confirmed)
    => (result.form_found /\ result.success)

\* C18: every URL of the succeeded ledger is in the attempted ledger.
C18_SucceededSubsetAttempted ==
    Range(completed_urls_file) \subseteq Range(processed_urls_file)

C18_Witness ==
    /\ pc = "dead"
    /\ restarts = 0
    /\ faults = 1
    /\ Len(processed_urls_file) = 2
    /\ Len(completed_urls_file) = 1
    /\ completed_urls_file[1] = processed_urls_file[1]

\* C19: no URL is on two lines of the attempted ledger, nor on two lines of
\* the succeeded ledger, also for a list that repeats a URL.
C19_LedgerLinesDistinct ==
    /\ Distinct(processed_urls_file)
    /\ Distinct(completed_urls_file)

C19_Witness ==
    /\ pc = "returned"
    /\ Len(urls) = 3
    /\ urls[2] = urls[3]
    /\ processed_urls_file = <<urls[2]>>
    /\ completed_urls_file = <<urls[2]>>
    /\ restarts = 1

\* C20: when run_batch returns and no bookkeeping call raised in it,
\* total_processed is the number of lines it added to the attempted ledger,
\* successful the number it added to the succeeded ledger, and
\* successful <= total_processed <= len(urls).
C20_PairMatchesLedgers ==
    (pc = "returned" /\ faults = faults_before)
    => /\ total_processed = Len(processed_urls_file) - attempted_before
       /\ successful_submissions = Len(completed_urls_file) - completed_before
       /\ successful_submissions <= total_processed
       /\ total_processed <= Len(urls)

C20_Witness ==
    /\ pc = "returned"
    /\ faults = faults_before
    /\ attempted_before = 1
    /\ total_processed = 1
    /\ successful_submissions = 0
    /\ Len(completed_urls_file) = 1

\* a step of run_batch that finds its URL in the attempted ledger and goes on
SkipStep ==
    /\ pc = "loop"
    /\ pc' = "loop"
    /\ i < Len(urls)
    /\ i' = i + 1
    /\ is_url_processed(processed_urls_file, UrlAt(i))

\* C21: an iteration whose URL is in the attempted ledger makes no agent
\* call and leaves marker, ledgers and counters as they are; a process started
\* after a run_batch that returned without errors makes no agent call, leaves
\* marker and ledgers as they are, and its run_batch returns (0, 0).
C21_SkipHasNoEffect ==
    [][/\ SkipStep
          => /\ UNCHANGED <<files, submitted, in_flight>>
             /\ UNCHANGED <<successful_submissions, total_processed>>
       /\ (after_clean_run /\ after_clean_run')
          => /\ UNCHANGED <<files, submitted, in_flight>>
             /\ pc' = "returned"
                => successful_submissions' = 0 /\ total_processed' = 0]_vars

C21_Witness ==
    /\ after_clean_run
    /\ pc = "returned"
    /\ urls = <<"shop1.com", "shop2.com", "shop2.com">>
    /\ processed_urls_file = <<"shop2.com">>
    /\ MarkerValue = 2
    /\ faults = 0
    /\ successful_submissions = 0
    /\ total_processed = 0

\* ---- what the functions are to return ---------------------------------------
\* s without its leading and trailing whitespace
Trimmed(s) ==
    LET idx == {k \in 1..Len(s) : s[k] # Space}
    IN  IF idx = {} THEN <<>>
        ELSE SubSeq(s, CHOOSE a \in idx : \A b \in idx : a <= b,
                       CHOOSE a \in idx : \A b \in idx : a >= b)

RECURSIVE Pow10(_)
Pow10(n) == IF n = 0 THEN 1 ELSE 10 * Pow10(n - 1)

RECURSIVE DecimalFrom(_, _)
DecimalFrom(d, k) ==
    IF k > Len(d) THEN 0
    ELSE DigitValue(d[k]) * Pow10(Len(d) - k) + DecimalFrom(d, k + 1)

ValidInteger(c) ==
    /\ Trimmed(c) # <<>>
    /\ \A k \in 1..Len(Trimmed(c)) : Trimmed(c)[k] \in Range(Digits)

ExpectedStartIndex(f) ==
    IF f.exists /\ ValidInteger(f.content)
    THEN DecimalFrom(Trimmed(f.content), 1) ELSE 0

\* C15: get_start_index returns the integer the marker file holds, 0 when
\* the file is absent or holds no valid integer, and n after save_progress(n).
C15_StartIndex ==
    (pc = "done" /\ arg.fn = "get_start_index")
    => /\ ret.value = ExpectedStartIndex(last_index_file)
       /\ arg.saved >= 0 => ret.value = arg.saved

C15_Witness ==
    /\ pc = "done"
    /\ arg.fn = "get_start_index"
    /\ arg.saved = 12
    /\ ret.value = 12

\* a URL [http://|https://]host[/path], the host a domain after any number
\* of www. labels
UrlRest(u) == IF u # <<>> /\ Head(u) \in Schemes THEN Tail(u) ELSE u

HostOf(u) ==
    LET r == UrlRest(u)
        stops == {k \in 1..Len(r) : r[k] = "/"}
    IN  IF stops = {} THEN r
        ELSE SubSeq(r, 1, (CHOOSE a \in stops : \A b \in stops : a <= b) - 1)

ValidUrl(u) ==
    LET r == UrlRest(u)
        h == HostOf(u)
    IN  /\ h # <<>>
        /\ h[Len(h)] = "shop1.com"
        /\ \A k \in 1..(Len(h) - 1) : h[k] = "www."
        /\ \A k \in (Len(h) + 1)..Len(r) : r[k] # "["

EmailHost(e) == SubSeq(e, 2, Len(e) - 1)

\* C16 as claimed: for a valid URL the result is news-{host}@plugilo.news,
\* {host} being the URL's host without its www. prefix, and {host} does not
\* start with www.
C16_HostWithoutWww ==
    (pc = "done" /\ arg.fn = "generate_email_from_url" /\ ValidUrl(arg.url))
    => LET h == EmailHost(ret.value)
           host == HostOf(arg.url)
       IN  /\ ret.value = Email(h)
           /\ \E k \in 0..Len(host) :
                 /\ h = SubSeq(host, k + 1, Len(host))
                 /\ \A j \in 1..k : host[j] = "www."
           /\ ~StartsWithWww(h)

\* C16, amended: generate_email_from_url always returns an address
\* news-...@plugilo.news; for a valid URL the part between is the URL's host
\* with one leading www. removed.
C16_HostWithoutOneWww ==
    (pc = "done" /\ arg.fn = "generate_email_from_url")
    => /\ Len(ret.value) >= 2
       /\ ret.value[1] = "news-"
       /\ ret.value[Len(ret.value)] = "@plugilo.news"
       /\ ValidUrl(arg.url)
          => LET host == HostOf(arg.url)
             IN  ret.value =
                   Email(IF host[1] = "www."
                         THEN SubSeq(host, 2, Len(host)) ELSE host)

C16_Witness ==
    /\ pc = "done"
    /\ arg.fn = "generate_email_from_url"
    /\ arg.url = <<"https://", "www.", "www.", "shop1.com">>
    /\ ret.value = <<"news-", "www.", "shop1.com", "@plugilo.news">>

KeptTrimmed(l) == l # <<>> /\ l[1] # "#"

\* C17: the loader returns, in file order, the trimmed lines that are not
\* empty and do not start with '#'; a missing file raises FileNotFoundError.
C17_Loader ==
    (pc = "done" /\ arg.fn = "get_urls_from_file")
    => IF arg.file.exists
       THEN ret.value =
              SelectSeq([k \in 1..Len(arg.file.lines) |->
                           Trimmed(arg.file.lines[k])], KeptTrimmed)
       ELSE ret.value = FileNotFoundError

C17_Witness ==
    /\ pc = "done"
    /\ arg.fn = "get_urls_from_file"
    /\ arg.file.exists
    /\ arg.file.lines = << <<Space, "a.com">>, <<Space, "#">> >>
    /\ ret.value = << <<"a.com">> >>

====
